---------------------------- MODULE Spec2Model ----------------------------
(***************************************************************************)
(* A model of radiko_recorder: the command-line entry point (main.rs), the *)
(* two-step authorization handshake (auth_handler.rs) and the player that  *)
(* lists stations and drives the external capture process (recorder.rs).   *)
(*                                                                         *)
(* A program text (area id, header value) is a sequence of one-character   *)
(* strings where the code inspects its characters, and a TLA+ string where *)
(* the code only stores, compares or concatenates it.                      *)
(***************************************************************************)
EXTENDS Integers, Sequences, FiniteSets, TLC

VARIABLES
    args,       \* the parsed command line (struct Args)
    pc,         \* the position of the single thread of control
    io,         \* every effect on the outside world so far, in order
    ioAtCall,   \* Len(io) when show_station_list / record_radio was entered
    headers,    \* RadikoAuthHandler.headers (NoMap before construction)
    res,        \* the step-1 response held by auth() (NoResponse before)
    err,        \* the error value being returned (NoError when none)
    player,     \* RadikoPlayer.headers (NoMap before construction)
    content,    \* the directory document get_station_list read (NoContent before)
    stations,   \* what get_station_list returned (NoStations when nothing)
    stdout,     \* the station lines printed by show_station_list
    log,        \* the info lines record has logged
    last,       \* what the network did to the latest request (NoCall before)
    sink,       \* what the capture process did ("none" before its launch)
    stderr,     \* what the process reported before ending
    exit        \* the exit status of the process (Running until it ends)

vars == <<args, pc, io, ioAtCall, headers, res, err, player, content,
          stations, stdout, log, last, sink, stderr, exit>>

-----------------------------------------------------------------------------
(* Bounds of the model *)

\* usize::MAX of the modelled machine word: a usize is 0 .. MaxWord and
\* unchecked addition wraps modulo MaxWord + 1
MaxWord == 63

\* the longest area-id text the validator is exercised on
MaxLen == 4

-----------------------------------------------------------------------------
(* Texts *)

Digits == <<"0", "1", "2", "3", "4", "5", "6", "7", "8", "9">>

DigitChars == {Digits[i] : i \in 1..10}

DigitValue(c) == (CHOOSE i \in 1..10 : Digits[i] = c) - 1

\* the characters area-id texts are drawn from
AreaChars == DigitChars \cup {"J", "P", "j"}

RECURSIVE Str(_)
\* a character sequence as one string
Str(s) == IF s = <<>> THEN "" ELSE Head(s) \o Str(Tail(s))

RECURSIVE Numeral(_)
\* the decimal numeral of a natural number, without leading zeros
Numeral(n) ==
    IF n < 10 THEN <<Digits[n + 1]>>
    ELSE Append(Numeral(n \div 10), Digits[(n % 10) + 1])

-----------------------------------------------------------------------------
(* main.rs: the validators *)

\* is_valid_area_id with the last alternative widened to 4[0-8]
IsValidAreaId_UpTo48(area_id) ==
    /\ Len(area_id) >= 2
    /\ area_id[1] = "J"
    /\ area_id[2] = "P"
    /\ LET num == SubSeq(area_id, 3, Len(area_id))
       IN  \/ Len(num) = 1 /\ num[1] \in DigitChars \ {"0"}
           \/ Len(num) = 2 /\ num[1] \in {"1", "2", "3"} /\ num[2] \in DigitChars
           \/ /\ Len(num) = 2
              /\ num[1] = "4"
              /\ num[2] \in {"0", "1", "2", "3", "4", "5", "6", "7", "8"}

\* is_valid_area_id: a match of ^JP([1-9]|[1-3][0-9]|4[0-7])$, where ^ and $
\* match only at the two ends of the text
IsValidAreaId(area_id) ==
    /\ Len(area_id) >= 2
    /\ area_id[1] = "J"
    /\ area_id[2] = "P"
    /\ LET num == SubSeq(area_id, 3, Len(area_id))
       IN  \/ Len(num) = 1 /\ num[1] \in DigitChars \ {"0"}
           \/ Len(num) = 2 /\ num[1] \in {"1", "2", "3"} /\ num[2] \in DigitChars
           \/ /\ Len(num) = 2
              /\ num[1] = "4"
              /\ num[2] \in {"0", "1", "2", "3", "4", "5", "6", "7"}

UpperAlnum == DigitChars \cup {"A", "B", "S", "T", "F", "M", "J", "P"}

\* is_valid_station_id: a match of ^[A-Z0-9]+$ (the capitals the model draws
\* station ids from stand for A-Z)
IsValidStationId(station_id) ==
    /\ Len(station_id) >= 1
    /\ \A i \in 1..Len(station_id) : station_id[i] \in UpperAlnum

-----------------------------------------------------------------------------
(* auth_handler.rs: the secret and the partial key *)

\* RADIKO_AUTH_KEY, b"bcd151073c03b352e1ef2fd66c32209da9ca0afa", as bytes
RADIKO_AUTH_KEY ==
    <<98, 99, 100, 49, 53, 49, 48, 55, 51, 99, 48, 51, 98, 51, 53, 50, 101, 49,
      101, 102, 50, 102, 100, 54, 54, 99, 51, 50, 50, 48, 57, 100, 97, 57, 99,
      97, 48, 97, 102, 97>>

\* the alphabet of general_purpose::STANDARD
B64 ==
    <<"A", "B", "C", "D", "E", "F", "G", "H", "I", "J", "K", "L", "M", "N", "O",
      "P", "Q", "R", "S", "T", "U", "V", "W", "X", "Y", "Z", "a", "b", "c", "d",
      "e", "f", "g", "h", "i", "j", "k", "l", "m", "n", "o", "p", "q", "r", "s",
      "t", "u", "v", "w", "x", "y", "z", "0", "1", "2", "3", "4", "5", "6", "7",
      "8", "9", "+", "/">>

RECURSIVE Base64Encode(_)
\* general_purpose::STANDARD.encode: three bytes to four characters, the last
\* group padded with '='
Base64Encode(bytes) ==
    IF Len(bytes) = 0 THEN ""
    ELSE IF Len(bytes) = 1 THEN
        B64[(bytes[1] \div 4) + 1] \o B64[((bytes[1] % 4) * 16) + 1] \o "=="
    ELSE IF Len(bytes) = 2 THEN
        B64[(bytes[1] \div 4) + 1]
            \o B64[((bytes[1] % 4) * 16 + (bytes[2] \div 16)) + 1]
            \o B64[((bytes[2] % 16) * 4) + 1] \o "="
    ELSE
        B64[(bytes[1] \div 4) + 1]
            \o B64[((bytes[1] % 4) * 16 + (bytes[2] \div 16)) + 1]
            \o B64[((bytes[2] % 16) * 4 + (bytes[3] \div 64)) + 1]
            \o B64[(bytes[3] % 64) + 1]
            \o Base64Encode(SubSeq(bytes, 4, Len(bytes)))


\* a slice that starts one byte early
Slice_OneEarly(bytes, start, end) == SubSeq(bytes, start, end - 1)

\* the bytes RADIKO_AUTH_KEY[start .. end), as the slice expression yields them
Slice(bytes, start, end) == SubSeq(bytes, start + 1, end)

-----------------------------------------------------------------------------
(* Header values and responses *)

NoMap == [k \in {} |-> ""]

\* a header of a response: absent, bytes that are not visible ASCII (to_str
\* fails), or a text
Absent == [kind |-> "absent", text |-> <<>>]

Opaque == [kind |-> "opaque", text |-> <<>>]

Text(t) == [kind |-> "text", text |-> t]

\* the auth tokens a server hands out
TokenTexts == {<<"t", "o", "k", "A">>, <<"t", "o", "k", "B">>}

TokenHeaders == {Absent, Opaque} \cup {Text(t) : t \in TokenTexts}

\* what a server can put in X-Radiko-KeyLength / X-Radiko-KeyOffset: every
\* numeral up to two past usize::MAX, and texts that are no usize
KeyTexts ==
    {Numeral(n) : n \in 0..(MaxWord + 2)}
        \cup {<<>>, <<"-", "1">>, <<"+", "7">>, <<"0", "7">>, <<"4", "x">>}

KeyHeaders == {Absent, Opaque} \cup {Text(t) : t \in KeyTexts}

Statuses == {200, 404, 503}

\* StatusCode::is_success
IsSuccess(status) == status >= 200 /\ status < 300

Response(status, bodyOk, token, keyLength, keyOffset) ==
    [status |-> status, bodyOk |-> bodyOk, token |-> token,
     keyLength |-> keyLength, keyOffset |-> keyOffset]

NoResponse == Response(0, FALSE, Absent, Absent, Absent)

\* what the network can do to one request: the client cannot be built, the
\* request fails in transport (connection error, timeout), or a response
\* arrives; bodyOk says whether reading the body (text()) succeeds
Outcome(kind, resp) == [kind |-> kind, resp |-> resp]

Step1Outcomes ==
    {Outcome("build_failed", NoResponse), Outcome("send_failed", NoResponse)}
        \cup {Outcome("response", Response(200, TRUE, tk, kl, ko)) :
                tk \in TokenHeaders, kl \in KeyHeaders, ko \in KeyHeaders}
        \cup {Outcome("response", Response(s, b, Absent, Absent, Absent)) :
                s \in Statuses \ {200}, b \in BOOLEAN}

Step2Outcomes ==
    {Outcome("build_failed", NoResponse), Outcome("send_failed", NoResponse)}
        \cup {Outcome("response", Response(s, b, Absent, Absent, Absent)) :
                s \in Statuses, b \in BOOLEAN}

\* the latest request and what the network did to it
Call(url, kind, status, bodyOk) ==
    [url |-> url, kind |-> kind, status |-> status, bodyOk |-> bodyOk]

NoCall == Call("", "none", 0, FALSE)

-----------------------------------------------------------------------------
(* Results *)

Ok(v) == [kind |-> "Ok", val |-> v]

Err(msg) == [kind |-> "Err", val |-> msg]

Panic(msg) == [kind |-> "Panic", val |-> msg]

NoError == ""

RECURSIVE ParseDigits(_, _)
\* the digit loop of usize::from_str: -1 for an invalid digit or an overflow
ParseDigits(s, acc) ==
    IF s = <<>> THEN acc
    ELSE IF Head(s) \notin DigitChars THEN -1
    ELSE IF acc * 10 + DigitValue(Head(s)) > MaxWord THEN -1
    ELSE ParseDigits(Tail(s), acc * 10 + DigitValue(Head(s)))

\* str::parse::<usize>: an optional '+', then at least one digit; -1 for Err
ParseUsize(s) ==
    LET body == IF s # <<>> /\ Head(s) = "+" THEN Tail(s) ELSE s
    IN  IF body = <<>> THEN -1 ELSE ParseDigits(body, 0)

\* usize + usize of a build without overflow checks
WrappingAdd(a, b) == (a + b) % (MaxWord + 1)

-----------------------------------------------------------------------------
(* auth_handler.rs *)

AUTH1_URL == "https://radiko.jp/v2/api/auth1"

AUTH2_URL == "https://radiko.jp/v2/api/auth2"

\* an effect on the outside world
Ev(kind, target, with) == [kind |-> kind, target |-> target, with |-> with]

Get(url, hdrs) == Ev("GET", url, hdrs)

Sleep == Ev("sleep", "1s", NoMap)

\* RadikoAuthHandler::new, lines 26-35: the seeded header map
InitialHeaders(area_id) ==
    [k \in {"User-Agent", "Accept", "X-Radiko-App", "X-Radiko-App-Version",
            "X-Radiko-User", "X-Radiko-Device", "X-Radiko-AuthToken",
            "X-Radiko-Partialkey", "X-Radiko-AreaId"} |->
        CASE k = "User-Agent" -> "python3.7"
          [] k = "Accept" -> "*/*"
          [] k = "X-Radiko-App" -> "pc_html5"
          [] k = "X-Radiko-App-Version" -> "0.0.1"
          [] k = "X-Radiko-User" -> "dummy_user"
          [] k = "X-Radiko-Device" -> "pc"
          [] k = "X-Radiko-AuthToken" -> ""
          [] k = "X-Radiko-Partialkey" -> ""
          [] k = "X-Radiko-AreaId" -> Str(area_id)]

\* HashMap::insert
Insert(map, key, value) ==
    [k \in DOMAIN map \cup {key} |-> IF k = key THEN value ELSE map[k]]

\* call_auth_api sending the request a second time after a response that is
\* no success
CallAuthApi_Resend(api_url, hdrs, out) ==
    IF out.kind = "build_failed" THEN
        [io |-> <<>>, result |-> Err("client build failed")]
    ELSE IF out.kind = "send_failed" THEN
        [io |-> <<Get(api_url, hdrs)>>, result |-> Err("send failed")]
    ELSE IF ~IsSuccess(out.resp.status) THEN
        [io |-> <<Get(api_url, hdrs), Sleep, Get(api_url, hdrs), Sleep>>,
         result |-> IF out.resp.bodyOk THEN Err("failed in " \o api_url \o ".")
                    ELSE Err("body read failed")]
    ELSE
        [io |-> <<Get(api_url, hdrs), Sleep>>, result |-> Ok(out.resp)]

\* call_auth_api: the effects it has and what it returns, for one outcome of
\* the network
CallAuthApi(api_url, hdrs, out) ==
    IF out.kind = "build_failed" THEN
        [io |-> <<>>, result |-> Err("client build failed")]
    ELSE IF out.kind = "send_failed" THEN
        [io |-> <<Get(api_url, hdrs)>>, result |-> Err("send failed")]
    ELSE IF ~IsSuccess(out.resp.status) THEN
        [io |-> <<Get(api_url, hdrs), Sleep>>,
         result |-> IF out.resp.bodyOk THEN Err("failed in " \o api_url \o ".")
                    ELSE Err("body read failed")]
    ELSE
        [io |-> <<Get(api_url, hdrs), Sleep>>, result |-> Ok(out.resp)]

\* get_auth_token with an absent header read as the empty token
GetAuthToken_AbsentIsEmpty(response) ==
    IF response.token.kind = "opaque" THEN Err("ToStrError")
    ELSE Ok(Str(response.token.text))

\* get_auth_token
GetAuthToken(response) ==
    IF response.token.kind = "absent" THEN
        Err("Missing X-Radiko-AUTHTOKEN header")
    ELSE IF response.token.kind = "opaque" THEN Err("ToStrError")
    ELSE Ok(Str(response.token.text))

\* get_partial_key; overflowChecks says whether the build checks arithmetic
\* overflow (a debug build) or wraps (a release build)
GetPartialKey(response, overflowChecks) ==
    IF response.keyLength.kind = "absent" THEN
        Err("Missing X-Radiko-KeyLength header")
    ELSE IF response.keyLength.kind = "opaque" THEN Err("ToStrError")
    ELSE IF ParseUsize(response.keyLength.text) < 0 THEN Err("ParseIntError")
    ELSE IF response.keyOffset.kind = "absent" THEN
        Err("Missing X-Radiko-KeyOffset header")
    ELSE IF response.keyOffset.kind = "opaque" THEN Err("ToStrError")
    ELSE IF ParseUsize(response.keyOffset.text) < 0 THEN Err("ParseIntError")
    ELSE
        LET key_length == ParseUsize(response.keyLength.text)
            key_offset == ParseUsize(response.keyOffset.text)
            overflows == key_offset + key_length > MaxWord
            end == WrappingAdd(key_offset, key_length)
        IN  IF overflows /\ overflowChecks THEN
                Panic("attempt to add with overflow")
            ELSE IF end > Len(RADIKO_AUTH_KEY) THEN
                Err("Key offset and length out of bounds")
            ELSE IF key_offset > end THEN
                Panic("slice index starts after its end")
            ELSE Ok(Base64Encode(Slice(RADIKO_AUTH_KEY, key_offset, end)))

-----------------------------------------------------------------------------
(* recorder.rs *)

\* a station directory document: the station elements under its root, or a
\* document of another shape (an error page, broken XML)
Station(id, name) == [id |-> id, name |-> name, ascii_name |-> id, ruby |-> name]

Document(wellFormed, elems) == [wellFormed |-> wellFormed, stations |-> elems]

Documents ==
    {Document(TRUE, <<Station("TBS", "TBS Radio"), Station("QRR", "Bunka Hoso")>>),
     Document(TRUE, <<Station("TBS", "TBS Radio")>>),
     Document(FALSE, <<>>)}

NoStations == <<>>

\* no document has been read
NoContent == Document(FALSE, <<>>)

\* what the network can do to the directory request
DirectoryOutcomes ==
    {[kind |-> "send_failed", status |-> 0, bodyOk |-> FALSE,
      doc |-> Document(FALSE, <<>>)]}
        \cup {[kind |-> "response", status |-> s, bodyOk |-> b, doc |-> d] :
                s \in Statuses, b \in BOOLEAN, d \in Documents}

\* quick_xml::de::from_str::<StationList>
ParseStationList(doc) ==
    IF doc.wellFormed THEN Ok(doc.stations) ELSE Err("XML parse error")

StationListUrl(area_id) ==
    "https://radiko.jp/v3/station/list/" \o Str(area_id) \o ".xml"

\* get_station_list: its effects and what it returns, for one outcome of the
\* network
GetStationList(area_id, out) ==
    [io |-> <<Get(StationListUrl(area_id), NoMap)>>,
     result |-> IF out.kind = "send_failed" THEN Err("send failed")
                ELSE IF ~out.bodyOk THEN Err("body read failed")
                ELSE ParseStationList(out.doc)]

\* the stream URL of record; the two formatted timestamps are left symbolic
StreamUrl(station_id) ==
    "https://radiko.jp/v2/api/ts/playlist.m3u8?station_id=" \o Str(station_id)
        \o "&l=15&ft=<ft>&to=<to>"

OutputPath(station_id) == "output/" \o Str(station_id) \o "_<timestamp>.aac"

\* what launching ffmpeg can do: no launch, or an exit status
SinkOutcomes == {"launch_failed", "exit 0", "exit 1", "signal 9"}

Spawn(header_arg, stream_url, output_path) ==
    Ev("spawn", "ffmpeg",
       [headers |-> header_arg, i |-> stream_url, out |-> output_path])

\* record with the exit status of the capture process ignored
Record_IgnoresStatus(hdrs, station_id, output_path, outcome) ==
    LET header_arg == "X-RADIKO-AUTHTOKEN: " \o hdrs["X-Radiko-AuthToken"]
        spawn == Spawn(header_arg, StreamUrl(station_id), output_path)
    IN  IF outcome = "launch_failed" THEN
            [io |-> <<spawn>>, log |-> <<"Recording">>,
             result |-> Err("launch failed")]
        ELSE
            [io |-> <<spawn>>, log |-> <<"Recording", "Successfully recorded">>,
             result |-> Ok("")]

\* record: its effects, what it logs and what it returns, for one outcome of
\* the capture process
Record(hdrs, station_id, output_path, outcome) ==
    IF "X-Radiko-AuthToken" \notin DOMAIN hdrs THEN
        [io |-> <<>>, log |-> <<>>, result |-> Err("Missing X-Radiko-AuthToken")]
    ELSE
        LET header_arg == "X-RADIKO-AUTHTOKEN: " \o hdrs["X-Radiko-AuthToken"]
            spawn == Spawn(header_arg, StreamUrl(station_id), output_path)
        IN  IF outcome = "launch_failed" THEN
                [io |-> <<spawn>>, log |-> <<"Recording">>,
                 result |-> Err("launch failed")]
            ELSE IF outcome # "exit 0" THEN
                [io |-> <<spawn>>, log |-> <<"Recording">>,
                 result |-> Err("ffmpeg exited with status: " \o outcome)]
            ELSE
                [io |-> <<spawn>>, log |-> <<"Recording", "Successfully recorded">>,
                 result |-> Ok("")]

-----------------------------------------------------------------------------
(* main.rs: the command line *)

\* Option<T>: None is the empty sequence, Some(v) is <<v>>
None == <<>>

Some(v) == <<v>>

Args(station_list, area_id, station_id, start_time, duration_minutes) ==
    [station_list |-> station_list, area_id |-> area_id,
     station_id |-> station_id, start_time |-> start_time,
     duration_minutes |-> duration_minutes]

JP13 == <<"J", "P", "1", "3">>

\* the area ids of the command lines the program is run on
SampleAreaIds ==
    {JP13, <<"J", "P", "0">>, <<"J", "P", "4", "8">>, <<"j", "p", "1", "3">>, <<>>}

SampleStationIds == {<<"T", "B", "S">>, <<"t", "b", "s">>, <<>>}

\* the command lines the program is run on
CommandLines ==
    {Args(TRUE, a, None, None, 60) : a \in SampleAreaIds}
        \cup {Args(FALSE, a, Some(st), Some("20240101000000"), d) :
                a \in SampleAreaIds, st \in SampleStationIds, d \in {-1, 0, 60}}
        \cup {Args(FALSE, JP13, None, None, 60),
              Args(FALSE, JP13, Some(<<"T", "B", "S">>), None, 60)}

InitWith(commandLines) ==
    /\ args \in commandLines
    /\ pc = "main"
    /\ io = <<>>
    /\ ioAtCall = 0
    /\ headers = NoMap
    /\ res = NoResponse
    /\ err = NoError
    /\ player = NoMap
    /\ content = NoContent
    /\ stations = NoStations
    /\ stdout = <<>>
    /\ log = <<>>
    /\ last = NoCall
    /\ sink = "none"
    /\ stderr = ""
    /\ exit = "running"

Init == InitWith(CommandLines)

\* the process ends: process::exit(code), or main returns
Exit(code, report) ==
    /\ pc' = "exited"
    /\ exit' = code
    /\ stderr' = report

\* a panic unwinds out of main: the process ends with status 101
Abort(msg) == Exit("101", "panicked: " \o msg)

\* what setup_logger does to the file system when it succeeds
LoggerEvents == <<Ev("mkdir", "logs", NoMap), Ev("open", "logs/<date>.log", NoMap)>>

\* logger.rs setup_logger, and main lines 116-119
SetupLogger ==
    /\ pc = "main"
    /\ \E ok \in BOOLEAN :
         IF ok THEN
            /\ io' = io \o LoggerEvents
            /\ pc' = "parsed"
            /\ UNCHANGED <<stderr, exit>>
         ELSE
            /\ io' = Append(io, Ev("mkdir", "logs", NoMap))
            /\ Exit("1", "Failed to initialize logger")
    /\ UNCHANGED <<args, content, ioAtCall, headers, res, err, player,
                   stations, stdout, log, last, sink>>

\* main asking for a station id and a start time before it looks at the
\* station-list flag
MainDispatch_StationRequired ==
    /\ pc = "parsed"
    /\ IF args.station_id = None \/ args.start_time = None THEN
            /\ Exit("1", "usage")
            /\ UNCHANGED ioAtCall
       ELSE IF args.station_list THEN
            /\ pc' = "show_station_list"
            /\ ioAtCall' = Len(io)
            /\ UNCHANGED <<stderr, exit>>
       ELSE
            /\ pc' = "record_radio"
            /\ ioAtCall' = Len(io)
            /\ UNCHANGED <<stderr, exit>>
    /\ UNCHANGED <<args, content, io, headers, res, err, player, stations,
                   stdout, log, last, sink>>

\* main lines 124-143: the choice of the operation
MainDispatch ==
    /\ pc = "parsed"
    /\ IF args.station_list THEN
            /\ pc' = "show_station_list"
            /\ ioAtCall' = Len(io)
            /\ UNCHANGED <<stderr, exit>>
       ELSE IF args.station_id = None \/ args.start_time = None THEN
            /\ Exit("1", "usage")
            /\ UNCHANGED ioAtCall
       ELSE
            /\ pc' = "record_radio"
            /\ ioAtCall' = Len(io)
            /\ UNCHANGED <<stderr, exit>>
    /\ UNCHANGED <<args, content, io, headers, res, err, player, stations,
                   stdout, log, last, sink>>

\* show_station_list lines 55-59, up to the call of RadikoPlayer::new
ShowStationListEnter ==
    /\ pc = "show_station_list"
    /\ IF ~IsValidAreaId(args.area_id) THEN
            /\ err' = "Invalid area ID: " \o Str(args.area_id)
            /\ pc' = "returned"
       ELSE
            /\ pc' = "handler_new"
            /\ UNCHANGED err
    /\ UNCHANGED <<args, content, io, ioAtCall, headers, res, player, stations,
                   stdout, log, last, sink, stderr, exit>>

\* what record_radio's own preparation can meet after validation: the output
\* directory cannot be created, the start time does not parse or is no single
\* local time, or all is well
PrepareOutcomes == {"mkdir_failed", "parse_failed", "not_single", "ok"}

\* record_radio with the output directory created before the arguments are
\* validated
RecordRadioEnter_MkdirFirst ==
    /\ pc = "record_radio"
    /\ io' = Append(io, Ev("mkdir", "output", NoMap))
    /\ IF ~IsValidAreaId(args.area_id) THEN
            /\ err' = "Invalid area ID: " \o Str(args.area_id)
            /\ pc' = "returned"
       ELSE IF ~IsValidStationId(args.station_id[1]) THEN
            /\ err' = "Invalid station ID: " \o Str(args.station_id[1])
            /\ pc' = "returned"
       ELSE IF args.duration_minutes <= 0 THEN
            /\ err' = "Duration minutes must be positive"
            /\ pc' = "returned"
       ELSE \E prep \in PrepareOutcomes :
            IF prep = "ok" THEN
                /\ pc' = "handler_new"
                /\ UNCHANGED err
            ELSE
                /\ pc' = "returned"
                /\ err' = CASE prep = "mkdir_failed" -> "io error"
                            [] prep = "parse_failed" -> "ParseError"
                            [] prep = "not_single" -> "Failed to convert start time"
    /\ UNCHANGED <<args, content, ioAtCall, headers, res, player, stations,
                   stdout, log, last, sink, stderr, exit>>

\* record_radio lines 77-104, up to the call of RadikoPlayer::new
RecordRadioEnter ==
    /\ pc = "record_radio"
    /\ IF ~IsValidAreaId(args.area_id) THEN
            /\ err' = "Invalid area ID: " \o Str(args.area_id)
            /\ pc' = "returned"
            /\ UNCHANGED io
       ELSE IF ~IsValidStationId(args.station_id[1]) THEN
            /\ err' = "Invalid station ID: " \o Str(args.station_id[1])
            /\ pc' = "returned"
            /\ UNCHANGED io
       ELSE IF args.duration_minutes <= 0 THEN
            /\ err' = "Duration minutes must be positive"
            /\ pc' = "returned"
            /\ UNCHANGED io
       ELSE \E prep \in PrepareOutcomes :
            /\ io' = Append(io, Ev("mkdir", "output", NoMap))
            /\ IF prep = "ok" THEN
                    /\ pc' = "handler_new"
                    /\ UNCHANGED err
               ELSE
                    /\ pc' = "returned"
                    /\ err' = CASE prep = "mkdir_failed" -> "io error"
                                [] prep = "parse_failed" -> "ParseError"
                                [] prep = "not_single" -> "Failed to convert start time"
    /\ UNCHANGED <<args, content, ioAtCall, headers, res, player, stations,
                   stdout, log, last, sink, stderr, exit>>

-----------------------------------------------------------------------------
(* The handshake: RadikoPlayer::new -> make_headers -> RadikoAuthHandler::new *)

\* RadikoAuthHandler::new lines 24-37: the handler with its seeded headers,
\* about to run auth()
NewHandler ==
    /\ pc = "handler_new"
    /\ headers' = InitialHeaders(args.area_id)
    /\ pc' = "auth1"
    /\ UNCHANGED <<args, content, io, ioAtCall, res, err, player, stations,
                   stdout, log, last, sink, stderr, exit>>

\* auth line 54: the step-1 call; an Err returns from auth() and from new()
Auth1 ==
    /\ pc = "auth1"
    /\ \E out \in Step1Outcomes :
         LET call == CallAuthApi(AUTH1_URL, headers, out)
         IN  /\ io' = io \o call.io
             /\ last' = Call(AUTH1_URL, out.kind, out.resp.status, out.resp.bodyOk)
             /\ IF call.result.kind = "Ok" THEN
                    /\ res' = call.result.val
                    /\ pc' = "auth1_done"
                    /\ UNCHANGED err
                ELSE
                    /\ err' = call.result.val
                    /\ pc' = "make_headers"
                    /\ UNCHANGED res
    /\ UNCHANGED <<args, content, ioAtCall, headers, player, stations, stdout,
                   log, sink, stderr, exit>>

\* auth lines 56-59: the token and the partial key are taken from the step-1
\* response and written into the headers; what the two functions return
Step1Values(response, overflowChecks) ==
    LET auth_token == GetAuthToken(response)
    IN  IF auth_token.kind # "Ok" THEN auth_token
        ELSE LET partial_key == GetPartialKey(response, overflowChecks)
             IN  IF partial_key.kind # "Ok" THEN partial_key
                 ELSE Ok([auth_token |-> auth_token.val,
                          partial_key |-> partial_key.val])

\* the step with the token written into the headers as soon as it is there,
\* before the partial key is derived
AuthStep1_TokenFirst ==
    /\ pc = "auth1_done"
    /\ \E overflowChecks \in BOOLEAN :
         LET auth_token == GetAuthToken(res)
             withToken == IF auth_token.kind = "Ok"
                          THEN Insert(headers, "X-Radiko-AuthToken", auth_token.val)
                          ELSE headers
             got == Step1Values(res, overflowChecks)
         IN  CASE got.kind = "Ok" ->
                    /\ headers' = Insert(withToken, "X-Radiko-Partialkey",
                                         got.val.partial_key)
                    /\ pc' = "auth2"
                    /\ UNCHANGED <<err, stderr, exit>>
               [] got.kind = "Err" ->
                    /\ headers' = withToken
                    /\ err' = got.val
                    /\ pc' = "make_headers"
                    /\ UNCHANGED <<stderr, exit>>
               [] got.kind = "Panic" ->
                    /\ headers' = withToken
                    /\ Abort(got.val)
                    /\ UNCHANGED err
    /\ UNCHANGED <<args, content, io, ioAtCall, res, player, stations, stdout,
                   log, last, sink>>

AuthStep1 ==
    /\ pc = "auth1_done"
    /\ \E overflowChecks \in BOOLEAN :
         LET got == Step1Values(res, overflowChecks)
         IN  CASE got.kind = "Ok" ->
                    /\ headers' = Insert(Insert(headers, "X-Radiko-AuthToken",
                                                got.val.auth_token),
                                         "X-Radiko-Partialkey", got.val.partial_key)
                    /\ pc' = "auth2"
                    /\ UNCHANGED <<err, stderr, exit>>
               [] got.kind = "Err" ->
                    /\ err' = got.val
                    /\ pc' = "make_headers"
                    /\ UNCHANGED <<headers, stderr, exit>>
               [] got.kind = "Panic" ->
                    /\ Abort(got.val)
                    /\ UNCHANGED <<headers, err>>
    /\ UNCHANGED <<args, content, io, ioAtCall, res, player, stations, stdout,
                   log, last, sink>>

\* auth lines 62-67: the step-2 call and the read of its body
Auth2 ==
    /\ pc = "auth2"
    /\ \E out \in Step2Outcomes :
         LET call == CallAuthApi(AUTH2_URL, headers, out)
         IN  /\ io' = io \o call.io
             /\ last' = Call(AUTH2_URL, out.kind, out.resp.status, out.resp.bodyOk)
             /\ pc' = "make_headers"
             /\ err' = IF call.result.kind # "Ok" THEN call.result.val
                       ELSE IF ~call.result.val.bodyOk THEN "body read failed"
                       ELSE NoError
    /\ UNCHANGED <<args, content, ioAtCall, headers, res, player, stations,
                   stdout, log, sink, stderr, exit>>

\* get_authenticated_headers: self.headers.clone(), a map of its own that
\* equals the handler's
GetAuthenticatedHeaders(hdrs) == [k \in DOMAIN hdrs |-> hdrs[k]]

\* make_headers going on with the handler's headers after a failed handshake
MakeHeaders_IgnoresFailure ==
    /\ pc = "make_headers"
    /\ player' = Insert(GetAuthenticatedHeaders(headers),
                        "Connection", "keep-alive")
    /\ pc' = IF args.station_list THEN "get_station_list" ELSE "record"
    /\ UNCHANGED <<args, content, io, ioAtCall, headers, res, err, stations,
                   stdout, log, last, sink, stderr, exit>>

\* make_headers adding its entry to the handler's own map instead of a copy
MakeHeaders_SharedMap ==
    /\ pc = "make_headers"
    /\ IF err # NoError THEN
            /\ Abort("Radiko authentication failed: " \o err)
            /\ UNCHANGED <<player, headers>>
       ELSE
            /\ headers' = Insert(headers, "Connection", "keep-alive")
            /\ player' = headers'
            /\ pc' = IF args.station_list THEN "get_station_list" ELSE "record"
            /\ UNCHANGED <<stderr, exit>>
    /\ UNCHANGED <<args, content, io, ioAtCall, res, err, stations, stdout, log,
                   last, sink>>

\* make_headers, and RadikoPlayer::new around it: expect() on the handler,
\* then the player's copy of the headers
MakeHeaders ==
    /\ pc = "make_headers"
    /\ IF err # NoError THEN
            /\ Abort("Radiko authentication failed: " \o err)
            /\ UNCHANGED player
       ELSE
            /\ player' = Insert(GetAuthenticatedHeaders(headers),
                                 "Connection", "keep-alive")
            /\ pc' = IF args.station_list THEN "get_station_list" ELSE "record"
            /\ UNCHANGED <<stderr, exit>>
    /\ UNCHANGED <<args, content, io, ioAtCall, headers, res, err, stations,
                   stdout, log, last, sink>>

-----------------------------------------------------------------------------
(* The two operations *)

\* show_station_list lines 60-67: the directory fetch and the printing
ShowStationListFetch ==
    /\ pc = "get_station_list"
    /\ \E out \in DirectoryOutcomes :
         LET call == GetStationList(args.area_id, out)
         IN  /\ io' = io \o call.io
             /\ last' = Call(StationListUrl(args.area_id), out.kind, out.status,
                             out.bodyOk)
             /\ content' = IF out.kind = "response" /\ out.bodyOk THEN out.doc
                           ELSE content
             /\ IF call.result.kind = "Ok" THEN
                    /\ stations' = call.result.val
                    /\ stdout' = [i \in 1..Len(call.result.val) |->
                                    "Station: id=" \o call.result.val[i].id]
                    /\ UNCHANGED err
                ELSE
                    /\ err' = call.result.val
                    /\ UNCHANGED <<stations, stdout>>
    /\ pc' = "returned"
    /\ UNCHANGED <<args, ioAtCall, headers, res, player, log, sink, stderr,
                   exit>>

\* record_radio lines 105-111: the capture
RecordRadioCapture ==
    /\ pc = "record"
    /\ \E out \in SinkOutcomes :
         LET call == Record(player, args.station_id[1],
                            OutputPath(args.station_id[1]), out)
         IN  /\ io' = io \o call.io
             /\ sink' = out
             /\ log' = log \o call.log
             /\ err' = IF call.result.kind = "Ok" THEN NoError ELSE call.result.val
    /\ pc' = "returned"
    /\ UNCHANGED <<args, content, ioAtCall, headers, res, player, stations,
                   stdout, last, stderr, exit>>

\* main lines 125-129 and 143-147: the operation has returned to main
MainReturn ==
    /\ pc = "returned"
    /\ IF err # NoError THEN Exit("1", "Error: " \o err) ELSE Exit("0", "")
    /\ UNCHANGED <<args, content, io, ioAtCall, headers, res, err, player,
                   stations, stdout, log, last, sink>>

Next ==
    \/ SetupLogger
    \/ MainDispatch
    \/ ShowStationListEnter
    \/ RecordRadioEnter
    \/ NewHandler
    \/ Auth1
    \/ AuthStep1
    \/ Auth2
    \/ MakeHeaders
    \/ ShowStationListFetch
    \/ RecordRadioCapture
    \/ MainReturn

Spec == Init /\ [][Next]_vars

-----------------------------------------------------------------------------
(* The area-id validator on every text *)

\* the ids of the 47 areas: JP and the decimal numeral of 1 .. 47
AreaIds47 == {<<"J", "P">> \o Numeral(n) : n \in 1..47}

\* every area id with one more character before or after it, and the
\* lower-case id
LongAreaTexts ==
    {<<c>> \o a : c \in AreaChars \cup {"p", " "}, a \in AreaIds47}
        \cup {Append(a, c) : c \in AreaChars \cup {"p", " "}, a \in AreaIds47}
        \cup {<<"j", "p", "1", "3">>}

\* the program at the entry of show_station_list; the area id it is called
\* with is the empty text, to be extended, or one of the longer texts
InitArea ==
    /\ args \in {Args(TRUE, a, None, None, 60) : a \in {<<>>} \cup LongAreaTexts}
    /\ pc = "show_station_list"
    /\ io = LoggerEvents
    /\ ioAtCall = Len(LoggerEvents)
    /\ headers = NoMap
    /\ res = NoResponse
    /\ err = NoError
    /\ player = NoMap
    /\ content = NoContent
    /\ stations = NoStations
    /\ stdout = <<>>
    /\ log = <<>>
    /\ last = NoCall
    /\ sink = "none"
    /\ stderr = ""
    /\ exit = "running"

\* the caller's choice of the area id, one character at a time: every text of
\* at most MaxLen characters is an argument show_station_list is entered with
ExtendAreaId ==
    /\ pc = "show_station_list"
    /\ Len(args.area_id) < MaxLen
    /\ \E c \in AreaChars : args' = [args EXCEPT !.area_id = Append(@, c)]
    /\ UNCHANGED <<pc, content, io, ioAtCall, headers, res, err, player,
                   stations, stdout, log, last, sink, stderr, exit>>

NextArea ==
    \/ ExtendAreaId
    \/ ShowStationListEnter

SpecArea == InitArea /\ [][NextArea]_vars

-----------------------------------------------------------------------------
(* Properties *)

AuthUrls == {AUTH1_URL, AUTH2_URL}

\* a request to url has been sent
Sent(url) == \E i \in DOMAIN io : io[i].kind = "GET" /\ io[i].target = url

Step1Sent == Sent(AUTH1_URL)

Step2Sent == Sent(AUTH2_URL)

\* the value a key header states, when it is the text of a usize
KeyValue(h) == IF h.kind = "text" THEN ParseUsize(h.text) ELSE -1

\* the step-1 response the handshake holds is a full success: 2xx, a token, and
\* a key length and a key offset that are usize values of a slice inside the
\* secret
Step1FullSuccess ==
    /\ res # NoResponse
    /\ IsSuccess(res.status)
    /\ res.token.kind = "text"
    /\ KeyValue(res.keyLength) >= 0
    /\ KeyValue(res.keyOffset) >= 0
    /\ KeyValue(res.keyOffset) + KeyValue(res.keyLength) <= Len(RADIKO_AUTH_KEY)

\* the positions of the program after the step-1 values were taken (or not)
AfterStep1 == pc \in {"auth2", "make_headers", "get_station_list", "record",
                      "returned", "exited"} /\ Step1Sent

\* construction of the handler has succeeded and the player holds its headers
Constructed == player # NoMap

\* C1: the step-2 request is sent only after a step-1 response that is a full
\* success (2xx, auth token, usable key length and offset inside the secret);
\* after any other step-1 outcome the construction does not succeed and no
\* step-2 request is sent.
C1_Step2OnlyAfterFullStep1 ==
    /\ Step2Sent => Step1FullSuccess
    /\ Constructed => Step2Sent
    /\ (AfterStep1 /\ ~Step1FullSuccess) => (~Step2Sent /\ ~Constructed)

\* a step-1 response with status 200 and no auth token has ended the run
C1_Witness ==
    /\ pc = "exited"
    /\ res # NoResponse
    /\ res.status = 200
    /\ res.token.kind = "absent"
    /\ ~Step2Sent
    /\ ~Constructed

\* the latest request was the step-2 request and its response had status 2xx
Step2Returned2xx ==
    last.url = AUTH2_URL /\ last.kind = "response" /\ IsSuccess(last.status)

\* the handler's headers are the seeded ones with the token of the step-1
\* response and the base64 of the slice of the secret it names
HeadersExact ==
    headers =
        Insert(Insert(InitialHeaders(args.area_id), "X-Radiko-AuthToken",
                      Str(res.token.text)),
               "X-Radiko-Partialkey",
               Base64Encode(SubSeq(RADIKO_AUTH_KEY, KeyValue(res.keyOffset) + 1,
                                   KeyValue(res.keyOffset)
                                       + KeyValue(res.keyLength))))

\* C2: when step 1 returned 2xx with a token and a valid offset and length
\* and step 2 returned 2xx, construction succeeds, and the headers hold exactly
\* that token and the base64 of that slice, the seeded fields unchanged.
C2_Claim ==
    (Step1FullSuccess /\ Step2Returned2xx) => (err = NoError /\ HeadersExact)

\* whenever construction does succeed, the headers are exact
HeadersExactWhenConstructed == Constructed => (Step1FullSuccess /\ HeadersExact)

\* C3: for a key offset and a key length whose true sum exceeds the length of
\* the secret, the derivation returns the bounds error and never panics.
C3_Claim ==
    ( /\ AfterStep1
      /\ res # NoResponse
      /\ res.token.kind = "text"
      /\ KeyValue(res.keyLength) >= 0
      /\ KeyValue(res.keyOffset) >= 0
      /\ KeyValue(res.keyOffset) + KeyValue(res.keyLength) > Len(RADIKO_AUTH_KEY) )
        => err = "Key offset and length out of bounds"

\* the handshake was started and has failed: the run is over, a handler was
\* made and no player came to exist
HandshakeFailed == pc = "exited" /\ headers # NoMap /\ ~Constructed

\* C4: a failed handshake reaches main as a returned error, which main
\* reports before it exits with status 1; it never becomes a panic.
C4_Claim ==
    (HandshakeFailed /\ err # NoError) => (exit = "1" /\ stderr = "Error: " \o err)

\* the operation has been entered
Entered ==
    \/ pc \in {"show_station_list", "record_radio", "handler_new", "auth1",
               "auth1_done", "auth2", "make_headers", "get_station_list",
               "record", "returned"}
    \/ pc = "exited" /\ stderr \notin {"usage", "Failed to initialize logger"}

\* the arguments the operation was entered with do not pass validation
InvalidArguments ==
    \/ args.area_id \notin AreaIds47
    \/ /\ ~args.station_list
       /\ \/ args.station_id[1] = <<>>
          \/ \E i \in DOMAIN args.station_id[1] :
                args.station_id[1][i] \notin UpperAlnum
          \/ args.duration_minutes <= 0

\* C5: an operation entered with an invalid area id, an invalid station id or
\* a duration <= 0 returns an error with no effect on the outside world: no
\* request, no directory or file, no capture process.
C5_ValidationBeforeIO ==
    (Entered /\ InvalidArguments) =>
        /\ Len(io) = ioAtCall
        /\ pc \in {"show_station_list", "record_radio", "returned", "exited"}
        /\ pc \in {"returned", "exited"} => err # NoError
        /\ pc = "exited" => exit = "1"
        /\ headers = NoMap /\ player = NoMap /\ sink = "none"

\* record_radio has returned the error of a duration of 0 minutes, the area
\* and the station being valid
C5_Witness ==
    /\ pc = "returned"
    /\ ~args.station_list
    /\ args.area_id = JP13
    /\ args.station_id = Some(<<"T", "B", "S">>)
    /\ args.duration_minutes = 0
    /\ err = "Duration minutes must be positive"

C6_WitnessRejected == pc = "returned" /\ args.area_id = <<"J", "P", "4", "8">>

\* the errors of a failed HTTP call
TransportErrors ==
    {"send failed", "body read failed", "client build failed"}
        \cup {"failed in " \o u \o "." : u \in AuthUrls}

\* C7: a response of a status that is not 2xx makes the operation fail with a
\* transport error, and its body is never used: no stations, no parse error.
C7_Claim ==
    (last.kind = "response" /\ ~IsSuccess(last.status)) =>
        (err \in TransportErrors /\ stations = NoStations)

\* C8: listing stations sends no step-1 and no step-2 request, and nothing of
\* a handshake can make it fail.
C8_Claim ==
    args.station_list =>
        /\ \A i \in DOMAIN io : io[i].target \notin AuthUrls
        /\ exit # "101"

\* C9: every step-1 or step-2 request that is sent is followed by the pause,
\* whatever its outcome, before anything else happens.
C9_Claim ==
    \A i \in DOMAIN io :
        (io[i].kind = "GET" /\ io[i].target \in AuthUrls) =>
            (i < Len(io) /\ io[i + 1] = Sleep)

\* the capture process has been launched, or its launch has failed
Launched == \E i \in DOMAIN io : io[i].kind = "spawn"

\* C10: record returns success exactly when the capture process was launched
\* and exited with status 0; otherwise it returns an error, with the exit
\* status when there is one, and the success line is not logged.
C10_RecordResult ==
    /\ sink = "none" => (~Launched /\ log = <<>>)
    /\ sink = "exit 0" =>
            (Launched /\ err = NoError
                /\ log = <<"Recording", "Successfully recorded">>)
    /\ sink = "launch_failed" => (err # NoError /\ log = <<"Recording">>)
    /\ sink \in {"exit 1", "signal 9"} =>
            /\ Launched
            /\ err = "ffmpeg exited with status: " \o sink
            /\ log = <<"Recording">>
    /\ (pc = "exited" /\ sink \notin {"none", "exit 0"}) => exit = "1"
    /\ (pc = "exited" /\ ~args.station_list /\ exit = "0") => sink = "exit 0"

\* the capture process has exited with status 1 and record has returned
C10_Witness ==
    /\ pc = "returned"
    /\ sink = "exit 1"
    /\ err = "ffmpeg exited with status: exit 1"

\* the positions in io of the requests sent to url
RequestsTo(url) ==
    {i \in DOMAIN io : io[i].kind = "GET" /\ io[i].target = url}

IsAuthRequest(e) == e.kind = "GET" /\ e.target \in AuthUrls

\* the authorization requests sent so far, in order
AuthTraffic == SelectSeq(io, IsAuthRequest)

\* the handshake has ended: a step has failed, or step 2 has returned
HandshakeOver ==
    pc \in {"make_headers", "get_station_list", "record", "returned", "exited"}

AtMostOnceInOrder ==
    /\ Cardinality(RequestsTo(AUTH1_URL)) <= 1
    /\ Cardinality(RequestsTo(AUTH2_URL)) <= 1
    /\ \A j \in RequestsTo(AUTH2_URL) : \E i \in RequestsTo(AUTH1_URL) : i < j

\* C11: no retry in the handshake: one construction sends at most one step-1
\* request and at most one step-2 request, the step-1 request before the
\* step-2 request, and once a step has failed or step 2 has returned no
\* further authorization request is sent.
C11_NoRetry ==
    /\ [](AtMostOnceInOrder)
    /\ [][HandshakeOver => AuthTraffic' = AuthTraffic]_vars

\* a handshake whose step 2 was answered 503 has ended with one request each
C11_Witness ==
    /\ pc = "exited"
    /\ last.url = AUTH2_URL /\ last.kind = "response" /\ last.status = 503
    /\ Cardinality(RequestsTo(AUTH1_URL)) = 1
    /\ Cardinality(RequestsTo(AUTH2_URL)) = 1

\* the k-th of the four 6-bit digits of a 24-bit group, as its character
Sextet(group, k) ==
    B64[((group \div (CASE k = 1 -> 262144 [] k = 2 -> 4096 [] k = 3 -> 64
                        [] k = 4 -> 1)) % 64) + 1]

RECURSIVE PaddedBase64(_)
\* RFC 4648 base64 with padding: the bytes read three at a time as one 24-bit
\* number written in four base-64 digits; a last group of one or two bytes is
\* filled with zero bits and written in two or three digits and '=' signs
PaddedBase64(bytes) ==
    IF bytes = <<>> THEN ""
    ELSE IF Len(bytes) = 1 THEN
        LET group == bytes[1] * 65536
        IN  Sextet(group, 1) \o Sextet(group, 2) \o "=="
    ELSE IF Len(bytes) = 2 THEN
        LET group == bytes[1] * 65536 + bytes[2] * 256
        IN  Sextet(group, 1) \o Sextet(group, 2) \o Sextet(group, 3) \o "="
    ELSE
        LET group == bytes[1] * 65536 + bytes[2] * 256 + bytes[3]
        IN  Sextet(group, 1) \o Sextet(group, 2) \o Sextet(group, 3)
                \o Sextet(group, 4) \o PaddedBase64(SubSeq(bytes, 4, Len(bytes)))

\* step 1 supplied a token, a key offset and a key length whose sum is at most
\* bound, and the step-1 values have been taken (or refused)
DerivationWithin(bound) ==
    /\ AfterStep1
    /\ res # NoResponse
    /\ IsSuccess(res.status)
    /\ res.token.kind = "text"
    /\ KeyValue(res.keyLength) >= 0
    /\ KeyValue(res.keyOffset) >= 0
    /\ KeyValue(res.keyOffset) + KeyValue(res.keyLength) <= bound

\* the derivation succeeded: the step-1 values were written into the headers
DerivationSucceeded == headers["X-Radiko-AuthToken"] = Str(res.token.text)

\* the partial key in the headers is the padded base64 of
\* secret[offset .. offset + length], of ceil(length / 3) * 4 characters
PartialKeyIsBase64OfSlice ==
    LET offset == KeyValue(res.keyOffset)
        length == KeyValue(res.keyLength)
        key == headers["X-Radiko-Partialkey"]
    IN  /\ key = PaddedBase64(SubSeq(RADIKO_AUTH_KEY, offset + 1, offset + length))
        /\ Len(key) = ((length + 2) \div 3) * 4
        /\ (offset = 0 /\ length = 8) => key = "YmNkMTUxMDc="

\* C12 as stated, the secret taken to have 41 bytes: for every offset and
\* length with offset + length <= 41 the derivation succeeds and returns the
\* padded base64 of secret[offset .. offset + length], of ceil(length / 3) * 4
\* characters.
C12_Claim ==
    DerivationWithin(41) => (DerivationSucceeded /\ PartialKeyIsBase64OfSlice)

\* C12: the secret has 40 bytes, and for every offset and length with
\* offset + length <= 40 the derivation succeeds and returns the padded base64
\* of secret[offset .. offset + length], a string of ceil(length / 3) * 4
\* characters that depends on nothing else; offset 0 and length 8 yield the
\* base64 of the first 8 bytes of the secret.
C12_PartialKey ==
    /\ Len(RADIKO_AUTH_KEY) = 40
    /\ DerivationWithin(40) => (DerivationSucceeded /\ PartialKeyIsBase64OfSlice)

\* the derivation for offset 0 and length 8 has yielded its key
C12_Witness ==
    /\ DerivationWithin(40)
    /\ KeyValue(res.keyOffset) = 0
    /\ KeyValue(res.keyLength) = 8
    /\ headers["X-Radiko-Partialkey"] = "YmNkMTUxMDc="

\* a derivation that ends at the last byte of the secret has yielded its key
C12_WitnessWholeSecret ==
    /\ DerivationWithin(40)
    /\ KeyValue(res.keyOffset) + KeyValue(res.keyLength) = 40
    /\ KeyValue(res.keyLength) = 40
    /\ Len(headers["X-Radiko-Partialkey"]) = 56

\* the program has ended a run in station-list mode for a valid area id
ListRunEnded == pc = "exited" /\ args.station_list /\ args.area_id \in AreaIds47

\* every network response the run has waited for was successful and
\* well-formed: the step-1 response a full success, the latest response 2xx
\* with a readable body, the directory document well-formed
ResponsesOk ==
    /\ Step1Sent => Step1FullSuccess
    /\ last.kind \in {"send_failed", "response"} =>
            (last.kind = "response" /\ IsSuccess(last.status) /\ last.bodyOk)
    /\ RequestsTo(StationListUrl(args.area_id)) # {} => content.wellFormed

\* the log file was set up and no HTTP client failed to build
CollaboratorsOk ==
    /\ stderr # "Failed to initialize logger"
    /\ last.kind # "build_failed"

\* the stations of the directory document were printed and the program ended
\* with success, the capture process never launched, no output directory made
ListedWithSuccess ==
    /\ exit = "0"
    /\ stderr = ""
    /\ RequestsTo(StationListUrl(args.area_id)) # {}
    /\ stations = content.stations
    /\ stdout = [i \in 1..Len(stations) |-> "Station: id=" \o stations[i].id]
    /\ ~Launched
    /\ \A i \in DOMAIN io : ~(io[i].kind = "mkdir" /\ io[i].target = "output")

Rank(position) ==
    CASE position = "main" -> 0
      [] position = "parsed" -> 1
      [] position \in {"show_station_list", "record_radio"} -> 2
      [] position = "handler_new" -> 3
      [] position = "auth1" -> 4
      [] position = "auth1_done" -> 5
      [] position = "auth2" -> 6
      [] position = "make_headers" -> 7
      [] position \in {"get_station_list", "record"} -> 8
      [] position = "returned" -> 9
      [] position = "exited" -> 10

Launches == {i \in DOMAIN io : io[i].kind = "spawn"}

\* before position i of io a handshake for the requested area ran both steps,
\* step 1 a full success whose token the step-2 request carried, and step 2
\* was answered 2xx
EstablishedBefore(i) ==
    /\ Step1FullSuccess
    /\ Step2Returned2xx
    /\ \E j \in RequestsTo(AUTH1_URL), k \in RequestsTo(AUTH2_URL) :
         /\ j < k /\ k < i
         /\ io[j].with["X-Radiko-AreaId"] = Str(args.area_id)
         /\ io[k].with["X-Radiko-AreaId"] = Str(args.area_id)
         /\ io[k].with["X-Radiko-AuthToken"] = Str(res.token.text)

Established ==
    /\ HandshakeOver
    /\ Step2Sent
    /\ Constructed \/ (pc = "make_headers" /\ Step2Returned2xx)

\* the player's map is the copy it was given with the Connection entry added,
\* and the handler's map has no such entry
CopyIsIndependent ==
    /\ "Connection" \notin DOMAIN headers
    /\ player["Connection"] = "keep-alive"
    /\ DOMAIN player = DOMAIN headers \cup {"Connection"}
    /\ \A k \in DOMAIN headers : player[k] = headers[k]

\* C15: once the session is Established its headers are never written again:
\* get_authenticated_headers leaves them as they are and returns a map equal
\* to them, the same at every call, and the Connection entry the player adds
\* to its copy does not reach them.
C15_HeadersSealed ==
    /\ [](Established => GetAuthenticatedHeaders(headers) = headers)
    /\ [](Constructed => (Established /\ CopyIsIndependent /\ HeadersExact))
    /\ [][Established =>
            /\ headers' = headers
            /\ GetAuthenticatedHeaders(headers)' = GetAuthenticatedHeaders(headers)
         ]_vars

\* the player has added its Connection entry to its copy and the program has
\* gone on to the end with the handler's headers as they were
C15_Witness ==
    /\ pc = "exited"
    /\ exit = "0"
    /\ Established
    /\ Constructed
    /\ "Connection" \in DOMAIN player
    /\ "Connection" \notin DOMAIN headers

\* the handler's headers are as new() seeded them, both slots empty
HeadersAsSeeded == headers = InitialHeaders(args.area_id)

\* both slots hold the values derived from the step-1 response
BothSlotsDerived ==
    /\ Step1FullSuccess
    /\ headers["X-Radiko-AuthToken"] = Str(res.token.text)
    /\ headers["X-Radiko-Partialkey"] =
            PaddedBase64(SubSeq(RADIKO_AUTH_KEY, KeyValue(res.keyOffset) + 1,
                                KeyValue(res.keyOffset) + KeyValue(res.keyLength)))
    /\ \A k \in DOMAIN headers \ {"X-Radiko-AuthToken", "X-Radiko-Partialkey"} :
            headers[k] = InitialHeaders(args.area_id)[k]

\* step 1 supplied a token, but no key length and key offset that name a
\* slice of the secret, and the step-1 values have been refused
TokenWithoutKey ==
    /\ AfterStep1
    /\ res # NoResponse
    /\ res.token.kind = "text"
    /\ ~Step1FullSuccess

\* C16: the auth-token and partial-key slots are written together and at most
\* once per handshake: in every state of a handshake either both slots hold
\* their empty placeholder, the headers as seeded, or both hold the values
\* derived from the step-1 response; when step 1 supplies a token but key
\* length or key offset is missing, unparsable or out of bounds, the headers
\* stay exactly as seeded.
C16_SlotsTogether ==
    /\ [](headers # NoMap => (HeadersAsSeeded \/ BothSlotsDerived))
    /\ [](TokenWithoutKey => HeadersAsSeeded)
    /\ [][(headers # NoMap /\ headers' # headers) =>
            (HeadersAsSeeded /\ pc = "auth1_done" /\ pc' = "auth2")]_vars

\* step 1 supplied a token and no key length: the handshake has failed with
\* the headers as seeded
C16_Witness ==
    /\ TokenWithoutKey
    /\ res.keyLength = Absent
    /\ pc = "make_headers"
    /\ err = "Missing X-Radiko-KeyLength header"
    /\ HeadersAsSeeded

\* both slots were written in the one step that took the step-1 values
C16_WitnessWritten ==
    /\ pc = "auth2"
    /\ BothSlotsDerived
    /\ headers["X-Radiko-Partialkey"] # ""

=============================================================================
